---- MODULE Spec2Model ----
(***************************************************************************)
(* A model of sacredex: the run driver (run.py), the duplicate-run guard,  *)
(* the purge of incomplete runs, the nested parameter grid (utils.py), the *)
(* artifact save/resolve functions (artifacts.py), the dataframe helpers   *)
(* (parse.py) and the folder iterator of parallel runs (parallel.py).      *)
(*                                                                         *)
(* Strings whose characters matter (dictionary keys, query paths) are      *)
(* sequences of one-character strings, so that formatting and splitting    *)
(* are computed and not assumed.  A Python dict is a function from keys to *)
(* tagged values: Scalar(v) or DictV(f).                                   *)
(***************************************************************************)
EXTENDS Integers, Sequences, FiniteSets, TLC

\* ------------------------------------------------------------------ bounds
MaxConfigs == 2        \* configurations the iterator of the run driver yields
MaxDriverStored == 1   \* run records in the store when the run driver starts
MaxGuardStored == 2    \* run records in the store the guard is applied to
MaxPurgeStored == 2    \* run records in the store that is purged
MaxId == 3             \* ids of the records of the purged store: 1..MaxId
MaxTop == 2            \* top-level keys of a parameter dictionary
MaxCands == 2          \* candidate values of one parameter
MaxRows == 2           \* runs of the frame whose artifacts are resolved
MaxArtifacts == 2      \* artifacts of one run
MaxFrameRows == 3      \* rows of the frame whose metrics are averaged
MaxRecords == 2        \* run records get_dataframe loads
MaxFiles == 2          \* configurations written to the folder
MaxWorkers == 2        \* worker processes that iterate the shared folder
MaxCalls == 2          \* configurations each of them is launched on

\* ----------------------------------------------------------------- strings
\* "sep in s" of Python, on character sequences (utils.py: "__" in k).
Contains(s, sep) ==
    \E i \in 1..(Len(s) - Len(sep) + 1) : SubSeq(s, i, i + Len(sep) - 1) = sep

RECURSIVE SplitFrom(_, _, _, _)
SplitFrom(s, sep, i, cur) ==
    IF i > Len(s) THEN <<cur>>
    ELSE IF i + Len(sep) - 1 <= Len(s) /\ SubSeq(s, i, i + Len(sep) - 1) = sep
         THEN <<cur>> \o SplitFrom(s, sep, i + Len(sep), <<>>)
         ELSE SplitFrom(s, sep, i + 1, Append(cur, s[i]))

\* s.split(sep) of Python: the leftmost non-overlapping occurrences of sep cut s.
Split(s, sep) == SplitFrom(s, sep, 1, <<>>)

\* ------------------------------------------------------------------ values
None == "None"
Scalar(v) == [kind |-> "scalar", val |-> v]
DictV(f) == [kind |-> "dict", items |-> f]
IsDict(x) == x.kind = "dict"          \* isinstance(value, dict)
EmptyDict == [k \in {} |-> Scalar(None)]

\* All dicts with keys among K and values among V.
Dicts(K, V) == UNION {[S -> V] : S \in SUBSET K}

\* The keys used by the run driver and the guard.
kA == <<"a">>
kB == <<"b">>
kIng == <<"i">>                       \* the experiment has an ingredient "i"
kOther == <<"x">>                     \* and none called "x"
kDotted == <<"a", ".", "b">>          \* the key "a.b"

\* dict(d, **{k: v}) for a single key.
With(d, k, v) == [j \in DOMAIN d \cup {k} |-> IF j = k THEN v ELSE d[j]]
Without(d, k) == [j \in DOMAIN d \ {k} |-> d[j]]
\* d1.update(d2)
Update(d1, d2) ==
    [j \in DOMAIN d1 \cup DOMAIN d2 |-> IF j \in DOMAIN d2 THEN d2[j] ELSE d1[j]]

VARIABLES
    \* the store (the collections of the MongoObserver)
    runs,            \* run records: [_id, status, config]
    metrics,         \* metric records: [_id]
    \* run_over_configurations
    pc,              \* "idle" | "start" | "loop" | "done"
    configuration_iterator,
    idx,             \* configurations consumed so far
    client,          \* TRUE: a pymongo client was given
    purge_first,
    observer,        \* what _attach_mongo_observer returned
    exObservers,     \* ex.observers
    ingredients,     \* ingredient name -> its configuration
    error_counter,
    reported,        \* the number printed at the end, -1 before
    log,             \* history: one entry per configuration taken
    \* _check_if_run applied on its own
    gConfig,
    gResult,
    \* purge_incomplete_runs applied on its own
    purgePc,         \* "idle" | "ready" | "done"
    preRuns,         \* history: the store before the purge
    preMetrics,
    \* nested_parameter_grid
    parameter_dict,
    gridResult,      \* [called, err, expanded, grid]
    \* resolve_artifacts
    frame,           \* the "artifacts" column: one list of artifacts per run id
    resolvePc,       \* "idle" | "running" | "returned" | "raised"
    resolveErr,
    row,             \* the run being resolved
    art,             \* the artifacts of that run loaded so far
    id_artifacts,    \* the dictionary _resolve_id_artifacts is building
    artifact_dict,
    warnings,        \* the artifacts logging.warning was called for
    \* save_artifact
    saveCall,        \* the arguments: [item, name, content_type]
    savePc,          \* "idle" | "call" | "mkstemp" | "dump" | "attach" | "remove"
                     \* | "returned" | "raised"
    saveErr,
    tmpFiles,        \* the temporary files that exist
    runArtifacts,    \* the artifacts attached to the run
    ioLog,           \* history: the I/O operations done
    \* average_metrics_over_seed
    avgFrame,        \* the frame given: one row per run
    avgResult,       \* [called, err, rows]
    \* get_dataframe
    dfRecords,       \* the frame mdbh.get_dataframe returns: one row per run record
    dfArgs,          \* [completed_only, open_metrics]
    dfResult,        \* [called, err, frame, warned]
    \* the shared folder and the JsonFolderIterator of each worker
    config_list,     \* the configurations written to the folder
    randomise,
    workers,         \* the workers that iterate the folder
    dumped,          \* TRUE: dump_config_list_to_json_tmpfiles has returned
    folderExists,
    folderFiles,     \* file name -> the text of the file
    wpc,             \* "new" | "isdir" | "listdir" | "load" | "remove" | "exists"
                     \* | "rmdir" | "ended"
    wsite,           \* who evaluates self.files: "__init__" | "__len__" | "next_file"
    wfile,           \* the file next_file returned, while __next__ runs
    wconfig,         \* the configuration load_json returned
    wend,            \* the exception that ended the worker: [exc, at]
    yielded,         \* history: what __next__ returned to each worker: [file, config, deleted]
    removedBy,       \* history: whose os.remove removed which file
    \* run_configuration called by processes
    calls,           \* the configurations every process is launched on
    callIdx,         \* process -> calls that have ended
    cpc,             \* process -> "route" | "check" | "run"
    cIng,            \* process -> the ingredients of its experiment
    cTop,            \* process -> top_level_config of the call
    cBefore,         \* history: process -> the ingredients when the call began
    callLog          \* history: process -> one entry per call that has ended

storeVars == <<runs, metrics>>
driverVars == <<pc, configuration_iterator, idx, client, purge_first, observer,
                exObservers, ingredients, error_counter, reported, log>>
guardVars == <<gConfig, gResult>>
purgeVars == <<purgePc, preRuns, preMetrics>>
gridVars == <<parameter_dict, gridResult>>
resolveVars == <<frame, resolvePc, resolveErr, row, art, id_artifacts, artifact_dict,
                 warnings>>
saveVars == <<saveCall, savePc, saveErr, tmpFiles, runArtifacts, ioLog>>
artifactVars == <<resolveVars, saveVars>>
parseVars == <<avgFrame, avgResult, dfRecords, dfArgs, dfResult>>
folderVars == <<config_list, randomise, workers, dumped, folderExists, folderFiles, wpc,
                wsite, wfile, wconfig, wend, yielded, removedBy>>
callVars == <<calls, callIdx, cpc, cIng, cTop, cBefore, callLog>>
moreVars == <<parseVars, folderVars, callVars>>
vars == <<storeVars, driverVars, guardVars, purgeVars, gridVars, artifactVars, moreVars>>

\* ------------------------------------------------------------------- store
COMPLETED == "COMPLETED"
RUNNING == "RUNNING"
FAILED == "FAILED"
INTERRUPTED == "INTERRUPTED"

MongoObserverObj == "MongoObserver"   \* an observer object, with runs and metrics
NoneObj == "None"

\* collection.delete_one({"_id": id}): removes one record with that _id, if any.
delete_one(coll, id) ==
    IF \E r \in coll : r._id = id
    THEN coll \ {CHOOSE r \in coll : r._id = id}
    ELSE coll

\* The field path of a query, "config.<key>" and "config.<key>.<inner_key>".
ConfigField == <<"c", "o", "n", "f", "i", "g">>
Dot == <<".">>
TopPath(key) == ConfigField \o Dot \o key
NestedPath(key, inner_key) == ConfigField \o Dot \o key \o Dot \o inner_key

\* The store resolves a dotted path field by field from the top of the record.
RECURSIVE Descend(_, _)
Descend(value, segs) ==
    IF segs = <<>> THEN [found |-> TRUE, value |-> value]
    ELSE IF IsDict(value) /\ Head(segs) \in DOMAIN value.items
         THEN Descend(value.items[Head(segs)], Tail(segs))
         ELSE [found |-> FALSE, value |-> Scalar(None)]

ResolvePath(record, path) ==
    LET segs == Split(path, Dot) IN
    IF Head(segs) = ConfigField
    THEN Descend(DictV(record.config), Tail(segs))
    ELSE [found |-> FALSE, value |-> Scalar(None)]

\* {path: value} on a record: equality on the resolved field; a null value also
\* matches a record without the field.
MatchesExpression(record, e) ==
    LET r == ResolvePath(record, e.path) IN
    IF e.value = None
    THEN ~r.found \/ (~IsDict(r.value) /\ r.value.val = None)
    ELSE r.found /\ ~IsDict(r.value) /\ r.value.val = e.value

\* runs.count_documents({"$and": expressions}); the store rejects an empty $and.
count_documents(coll, expressions) ==
    IF expressions = {}
    THEN [raised |-> TRUE, count |-> 0]
    ELSE [raised |-> FALSE,
          count |-> Cardinality({r \in coll :
                        \A e \in expressions : MatchesExpression(r, e)})]

\* ------------------------------------------------------ duplicate-run guard
\* The expressions of the query, one per top-level scalar field and one per
\* inner field of a nested mapping.
Expressions(config) ==
    UNION {{[path |-> NestedPath(k, i), value |-> config[k].items[i].val] :
                i \in DOMAIN config[k].items} :
            k \in {k \in DOMAIN config : IsDict(config[k])}}
    \cup {[path |-> TopPath(k), value |-> config[k].val] :
            k \in {k \in DOMAIN config : ~IsDict(config[k])}}

\* has_run is TRUE unless count = 0; a count above 1 logs a warning.
HasRunOfCount(count) == count # 0

_check_if_run(coll, config) ==
    LET c == count_documents(coll, Expressions(config)) IN
    IF c.raised
    THEN [raised |-> TRUE, has_run |-> FALSE, warned |-> FALSE]
    ELSE [raised |-> FALSE, has_run |-> HasRunOfCount(c.count), warned |-> c.count > 1]

\* ------------------------------------------------------------------- purge
\* A deletion that forgets the metrics collection.
_delete_run_id_RunsOnly(store, run_id) ==
    [runs |-> delete_one(store.runs, run_id), metrics |-> store.metrics]

_delete_run_id(store, run_id) ==
    [runs |-> delete_one(store.runs, run_id),
     metrics |-> delete_one(store.metrics, run_id)]

\* runs.find({"$nor": [{"status": "COMPLETED"}, {"status": "RUNNING"}]}, {"_id": 1})
IncompleteIds(coll) == {r._id : r \in {r \in coll : r.status \notin {COMPLETED, RUNNING}}}

RECURSIVE DeleteAll(_, _)
DeleteAll(store, ids) ==
    IF ids = {} THEN store
    ELSE LET id == CHOOSE id \in ids : TRUE IN
         DeleteAll(_delete_run_id(store, id), ids \ {id})

\* hasattr(mongo_observer, "runs") holds of an observer object and not of None.
purge_incomplete_runs(obs, store) ==
    IF obs = MongoObserverObj
    THEN DeleteAll(store, IncompleteIds(store.runs))
    ELSE store

\* -------------------------------------------------------------- run driver
\* The orders in which a dict with the keys S may be iterated.
Orders(S) ==
    {o \in [1..Cardinality(S) -> S] : \A i, j \in 1..Cardinality(S) : o[i] = o[j] => i = j}

\* All sequences over S of length at most n.
SeqsUpTo(S, n) == UNION {[1..m -> S] : m \in 0..n}

\* _attach_mongo_observer: appends an observer to ex.observers when a client is
\* given; the function has no return statement, its value is None either way.
_attach_mongo_observer(observers, cl) ==
    [observers |-> IF cl THEN Append(observers, MongoObserverObj) ELSE observers,
     ret |-> NoneObj]

\* _update_ingredient_params over the remaining keys of params.copy(), in
\* iteration order: a dict value is given to its ingredient and removed from
\* params; a dict under a key that names no ingredient fails the assertion, and
\* what was given to ingredients before stays given.
RECURSIVE UpdateFrom(_, _, _, _)
UpdateFrom(ing, config, params, order) ==
    IF order = <<>> THEN [raised |-> FALSE, ingredients |-> ing, params |-> params]
    ELSE LET key == Head(order) IN
         IF ~IsDict(config[key]) THEN UpdateFrom(ing, config, params, Tail(order))
         ELSE IF key \notin DOMAIN ing
              THEN [raised |-> TRUE, ingredients |-> ing, params |-> params]
              ELSE UpdateFrom([ing EXCEPT ![key] = Update(@, config[key].items)],
                              config, Without(params, key), Tail(order))

_update_ingredient_params(ing, params, order) == UpdateFrom(ing, params, params, order)

\* The configuration of the run record the experiment's observer writes: the
\* updates given to ex.run and the configuration of each ingredient.
FullConfig(top, ing) ==
    Update(top, [n \in {n \in DOMAIN ing : ing[n] # EmptyDict} |-> DictV(ing[n])])

NextRunId(coll) == IF coll = {} THEN 1 ELSE 1 + CHOOSE n \in {r._id : r \in coll} :
                                                 \A r \in coll : r._id <= n

\* ex.run(config_updates=top): the experiment ends normally or raises; an
\* attached observer records the run.
ex_run(coll, observers, ing, top, outcome) ==
    [raised |-> outcome = "raise",
     runs |-> IF observers = <<>> THEN coll
              ELSE coll \cup {[_id |-> NextRunId(coll),
                               status |-> IF outcome = "ok" THEN COMPLETED ELSE FAILED,
                               config |-> FullConfig(top, ing)]}]

\* run_configuration(ex, config, observer)
run_configuration(coll, observers, ing, config, order, obs, outcome) ==
    LET u == _update_ingredient_params(ing, config, order)
        g == _check_if_run(coll, config)
        r == ex_run(coll, observers, u.ingredients, u.params, outcome)
    IN  IF u.raised
        THEN [raised |-> TRUE, routed |-> FALSE, checked |-> FALSE, invoked |-> FALSE,
              ingredients |-> u.ingredients, runs |-> coll]
        ELSE IF obs # NoneObj /\ g.raised
        THEN [raised |-> TRUE, routed |-> TRUE, checked |-> TRUE, invoked |-> FALSE,
              ingredients |-> u.ingredients, runs |-> coll]
        ELSE IF obs # NoneObj /\ g.has_run
        THEN [raised |-> FALSE, routed |-> TRUE, checked |-> TRUE, invoked |-> FALSE,
              ingredients |-> u.ingredients, runs |-> coll]
        ELSE [raised |-> r.raised, routed |-> TRUE, checked |-> obs # NoneObj,
              invoked |-> TRUE, ingredients |-> u.ingredients, runs |-> r.runs]

\* _log_run_error: logs, and returns the counter plus one.
_log_run_error(counter) == counter + 1

\* A loop body without the except clause: an exception of a run leaves the loop.
TryRunConfiguration_Propagates(r, counter) ==
    [propagates |-> r.raised, error_counter |-> counter]

\* The try statement of the loop: "except Exception" takes every exception of the
\* run, so none leaves the loop body; the value _log_run_error returns is not
\* assigned, so error_counter stays as it was.
TryRunConfiguration(r, counter) ==
    LET returned == IF r.raised THEN _log_run_error(counter) ELSE counter IN
    [propagates |-> FALSE, error_counter |-> counter]

\* The configurations given to the driver.
cA1 == (kA :> Scalar("1"))
cA2 == (kA :> Scalar("2"))
cIng1 == (kA :> Scalar("1")) @@ (kIng :> DictV(kB :> Scalar("1")))
cIng2 == (kA :> Scalar("1")) @@ (kIng :> DictV(kB :> Scalar("2")))
cOther == (kIng :> DictV(kB :> Scalar("2"))) @@ (kOther :> DictV(kB :> Scalar("1")))
DriverConfigs == {cA1, cA2, cIng1, cIng2, cOther}

\* The stores the driver is started on.
StoresOf(statuses, configs, n) ==
    UNION {{{[_id |-> i, status |-> f[i].status, config |-> f[i].config] : i \in 1..m} :
                f \in [1..m -> [status : statuses, config : configs]]} : m \in 0..n}

DriverStores == StoresOf({COMPLETED, FAILED}, {cA1, cIng1}, MaxDriverStored)

\* set_logger, _attach_mongo_observer and the optional purge.
Start ==
    /\ pc = "start"
    /\ LET a == _attach_mongo_observer(exObservers, client)
           s == IF purge_first
                THEN purge_incomplete_runs(a.ret, [runs |-> runs, metrics |-> metrics])
                ELSE [runs |-> runs, metrics |-> metrics]
       IN  /\ observer' = a.ret
           /\ exObservers' = a.observers
           /\ runs' = s.runs
           /\ metrics' = s.metrics
    /\ error_counter' = 0
    /\ pc' = "loop"
    /\ UNCHANGED <<configuration_iterator, idx, client, purge_first, ingredients,
                   reported, log>>

\* One pass of the loop body on the next configuration of the iterator.
RunNext ==
    /\ pc = "loop"
    /\ idx < Len(configuration_iterator)
    /\ LET config == configuration_iterator[idx + 1] IN
       \E order \in Orders(DOMAIN config), outcome \in {"ok", "raise"} :
          LET r == run_configuration(runs, exObservers, ingredients, config, order,
                                     observer, outcome)
              t == TryRunConfiguration(r, error_counter)
              matched == _check_if_run(runs, config).has_run
          IN  /\ ingredients' = r.ingredients
              /\ runs' = r.runs
              /\ error_counter' = t.error_counter
              /\ log' = Append(log, [config |-> config, routed |-> r.routed,
                                     matched |-> matched, invoked |-> r.invoked,
                                     raised |-> r.raised])
              /\ pc' = IF t.propagates THEN "raised" ELSE "loop"
    /\ idx' = idx + 1
    /\ UNCHANGED <<metrics, configuration_iterator, client, purge_first, observer,
                   exObservers, reported>>

\* The iterator is exhausted: the error count is printed.
Finish ==
    /\ pc = "loop"
    /\ idx = Len(configuration_iterator)
    /\ reported' = error_counter
    /\ pc' = "done"
    /\ UNCHANGED <<storeVars, configuration_iterator, idx, client, purge_first, observer,
                   exObservers, ingredients, error_counter, log>>

DriverIdle ==
    /\ pc = "idle"
    /\ configuration_iterator = <<>>
    /\ idx = 0
    /\ client = FALSE
    /\ purge_first = FALSE
    /\ observer = NoneObj
    /\ exObservers = <<>>
    /\ ingredients = (kIng :> EmptyDict)
    /\ error_counter = 0
    /\ reported = -1
    /\ log = <<>>

NotCalled == [called |-> FALSE, raised |-> FALSE, has_run |-> FALSE, warned |-> FALSE]

GuardIdle == gConfig = EmptyDict /\ gResult = NotCalled

PurgeIdle == purgePc = "idle" /\ preRuns = {} /\ preMetrics = {}

GridNotCalled == [called |-> FALSE, err |-> "none", expanded |-> FALSE, grid |-> <<>>]

GridIdle == parameter_dict = EmptyDict /\ gridResult = GridNotCalled

NoCall == [item |-> "object", name |-> "x", content_type |-> "pickle"]

ResolveIdle ==
    /\ frame = <<>>
    /\ resolvePc = "idle"
    /\ resolveErr = "none"
    /\ row = 1
    /\ art = 0
    /\ id_artifacts = <<>>
    /\ artifact_dict = <<>>
    /\ warnings = {}

SaveIdle ==
    /\ saveCall = NoCall
    /\ savePc = "idle"
    /\ saveErr = "none"
    /\ tmpFiles = {}
    /\ runArtifacts = <<>>
    /\ ioLog = <<>>

AvgNotCalled == [called |-> FALSE, err |-> "none", rows |-> {}]

DfNotCalled == [called |-> FALSE, err |-> "none", frame |-> <<>>, warned |-> FALSE]

ParseIdle ==
    /\ avgFrame = <<>>
    /\ avgResult = AvgNotCalled
    /\ dfRecords = <<>>
    /\ dfArgs = [completed_only |-> TRUE, open_metrics |-> TRUE]
    /\ dfResult = DfNotCalled

\* "{}/config_{}.json".format(folder, i): the name of a file in the folder.
FileName(i) == [stem |-> "config", index |-> i, suffix |-> "json"]

NoFile == FileName(-1)
Workers == 1..MaxWorkers

NoEnd == [exc |-> "none", at |-> "none"]

FolderStart ==
    /\ dumped = FALSE
    /\ folderExists = FALSE
    /\ folderFiles = <<>>
    /\ wpc = [w \in Workers |-> "new"]
    /\ wsite = [w \in Workers |-> "none"]
    /\ wfile = [w \in Workers |-> NoFile]
    /\ wconfig = [w \in Workers |-> <<>>]
    /\ wend = [w \in Workers |-> NoEnd]
    /\ yielded = [w \in Workers |-> <<>>]
    /\ removedBy = {}

FolderIdle ==
    /\ config_list = <<>>
    /\ randomise = FALSE
    /\ workers = {}
    /\ FolderStart

CallsIdle ==
    /\ calls = <<>>
    /\ callIdx = <<>>
    /\ cpc = <<>>
    /\ cIng = <<>>
    /\ cTop = <<>>
    /\ cBefore = <<>>
    /\ callLog = <<>>

MoreIdle == ParseIdle /\ FolderIdle /\ CallsIdle

Init ==
    /\ runs \in DriverStores
    /\ metrics = {}
    /\ pc = "start"
    /\ configuration_iterator \in SeqsUpTo(DriverConfigs, MaxConfigs)
    /\ idx = 0
    /\ client \in BOOLEAN
    /\ purge_first \in BOOLEAN
    /\ observer = NoneObj
    /\ exObservers = <<>>
    /\ ingredients = (kIng :> EmptyDict)
    /\ error_counter = 0
    /\ reported = -1
    /\ log = <<>>
    /\ GuardIdle
    /\ PurgeIdle
    /\ GridIdle
    /\ ResolveIdle
    /\ SaveIdle
    /\ MoreIdle

Next ==
    \/ Start /\ UNCHANGED <<guardVars, purgeVars, gridVars, artifactVars, moreVars>>
    \/ RunNext /\ UNCHANGED <<guardVars, purgeVars, gridVars, artifactVars, moreVars>>
    \/ Finish /\ UNCHANGED <<guardVars, purgeVars, gridVars, artifactVars, moreVars>>

\* run_over_configurations, called once.
Spec == Init /\ [][Next]_vars

\* ------------------------------------------- the guard applied on its own
GuardScalars == {Scalar("1"), Scalar("2"), Scalar(None)}
GuardValues == GuardScalars \cup {DictV(f) : f \in Dicts({kB}, GuardScalars)}
GuardConfigs == Dicts({kA, kB, kDotted}, GuardValues)

\* Configurations of stored run records (the experiment refuses a key with a dot).
sA1 == (kA :> Scalar("1"))
sA1B2 == (kA :> Scalar("1")) @@ (kB :> Scalar("2"))
sNest == (kA :> DictV(kB :> Scalar("1")))
sNestB == (kA :> DictV(kB :> Scalar("1"))) @@ (kB :> Scalar(None))
sB2 == (kB :> Scalar("2"))
StoredGuardConfigs == {sA1, sA1B2, sNest, sNestB, sB2}

GuardStores == StoresOf({COMPLETED}, StoredGuardConfigs, MaxGuardStored)

CheckIfRun ==
    /\ ~gResult.called
    /\ LET g == _check_if_run(runs, gConfig) IN
       gResult' = [called |-> TRUE, raised |-> g.raised, has_run |-> g.has_run,
                   warned |-> g.warned]
    /\ UNCHANGED <<storeVars, gConfig>>

InitGuard ==
    /\ runs \in GuardStores
    /\ metrics = {}
    /\ gConfig \in GuardConfigs
    /\ gResult = NotCalled
    /\ DriverIdle
    /\ PurgeIdle
    /\ GridIdle
    /\ ResolveIdle
    /\ SaveIdle
    /\ MoreIdle

NextGuard == CheckIfRun /\ UNCHANGED <<driverVars, purgeVars, gridVars, artifactVars, moreVars>>

\* _check_if_run, called once on any configuration and store.
SpecGuard == InitGuard /\ [][NextGuard]_vars

\* ------------------------------------------- the purge applied on its own
PurgeRunSets ==
    UNION {{{[_id |-> i, status |-> f[i], config |-> cA1] : i \in ids} :
                f \in [ids -> {COMPLETED, RUNNING, FAILED, INTERRUPTED}]} :
           ids \in {ids \in SUBSET (1..MaxId) : Cardinality(ids) <= MaxPurgeStored}}

PurgeMetricSets == {{[_id |-> i] : i \in ids} : ids \in SUBSET (1..MaxId)}

Purge ==
    /\ purgePc = "ready"
    /\ LET s == purge_incomplete_runs(MongoObserverObj,
                                      [runs |-> runs, metrics |-> metrics])
       IN  runs' = s.runs /\ metrics' = s.metrics
    /\ preRuns' = runs
    /\ preMetrics' = metrics
    /\ purgePc' = "done"

InitPurge ==
    /\ runs \in PurgeRunSets
    /\ metrics \in PurgeMetricSets
    /\ purgePc = "ready"
    /\ preRuns = {}
    /\ preMetrics = {}
    /\ DriverIdle
    /\ GuardIdle
    /\ GridIdle
    /\ ResolveIdle
    /\ SaveIdle
    /\ MoreIdle

NextPurge == Purge /\ UNCHANGED <<driverVars, guardVars, gridVars, artifactVars, moreVars>>

\* purge_incomplete_runs, called once on an observer's store.
SpecPurge == InitPurge /\ [][NextPurge]_vars

\* ---------------------------------------------------- nested_parameter_grid
\* A candidate list of a parameter dictionary.
ListV(cands) == [kind |-> "list", cands |-> cands]

Dunder == <<"_", "_">>                \* the separator "__"

\* Code points of the characters of the keys, for the order of sorted().
Ord(c) == CASE c = "." -> 46 [] c = "_" -> 95 [] c = "a" -> 97 [] c = "b" -> 98
            [] c = "c" -> 99 [] OTHER -> 120

RECURSIVE StrLess(_, _)
StrLess(s, t) ==
    IF t = <<>> THEN FALSE
    ELSE IF s = <<>> THEN TRUE
    ELSE IF Head(s) # Head(t) THEN Ord(Head(s)) < Ord(Head(t))
    ELSE StrLess(Tail(s), Tail(t))

RECURSIVE Sorted(_)
Sorted(S) ==
    IF S = {} THEN <<>>
    ELSE LET m == CHOOSE m \in S : \A x \in S \ {m} : StrLess(m, x) IN
         <<m>> \o Sorted(S \ {m})

\* The product over the keys, the first key changing slowest.
RECURSIVE Product(_, _)
Product(pd, keys) ==
    IF keys = <<>> THEN <<EmptyDict>>
    ELSE LET rest == Product(pd, Tail(keys))
             k == Head(keys)
         IN  [n \in 1..(Len(pd[k].cands) * Len(rest)) |->
                 With(rest[((n - 1) % Len(rest)) + 1], k,
                      Scalar(pd[k].cands[((n - 1) \div Len(rest)) + 1]))]

\* list(ParameterGrid(pd)): one dict per combination of one candidate per key,
\* the keys sorted; a value that is no list is refused.
ParameterGrid(pd) ==
    IF \E k \in DOMAIN pd : pd[k].kind # "list"
    THEN [err |-> "TypeError", grid |-> <<>>]
    ELSE [err |-> "none", grid |-> Product(pd, Sorted(DOMAIN pd))]

\* any([isinstance(v, dict) for v in parameter_dict.values()])
HasNested(pd) == \E k \in DOMAIN pd : IsDict(pd[k])

\* A grid without the assertion on the top-level keys.
ReservedKeyUsed_Never(pd) == FALSE

\* The assertion on the top-level keys fails.
ReservedKeyUsed(pd) == \E k \in DOMAIN pd : Contains(k, Dunder)

\* A depth check that looks into the first nested mapping only.
TooDeep_FirstOnly(pd) ==
    LET ks == Sorted({k \in DOMAIN pd : IsDict(pd[k])}) IN
    ks # <<>> /\ \E i \in DOMAIN pd[ks[1]].items : IsDict(pd[ks[1]].items[i])

\* An inner value of a nested mapping is itself a mapping.
TooDeep(pd) ==
    \E k \in DOMAIN pd : IsDict(pd[k]) /\ \E i \in DOMAIN pd[k].items : IsDict(pd[k].items[i])

dunder_keys(pd) == {k \in DOMAIN pd : IsDict(pd[k])}

FlatKey(key, inner_key) == key \o Dunder \o inner_key

\* new_parameter_dict: a nested mapping's inner keys under key + "__" + inner_key,
\* the other keys as they are.
new_parameter_dict(pd) ==
    LET pairs == {p \in dunder_keys(pd) \X UNION {DOMAIN pd[k].items : k \in dunder_keys(pd)} :
                     p[2] \in DOMAIN pd[p[1]].items}
        flat == {FlatKey(p[1], p[2]) : p \in pairs}
        plain == DOMAIN pd \ dunder_keys(pd)
    IN  [f \in flat \cup plain |->
            IF f \in flat
            THEN LET p == CHOOSE p \in pairs : FlatKey(p[1], p[2]) = f IN pd[p[1]].items[p[2]]
            ELSE pd[f]]

\* The loop that puts one item of the base grid back into the nested format,
\* over the keys of the item still to do.
RECURSIVE RemapFrom(_, _, _)
RemapFrom(params, keys, remapped) ==
    IF keys = <<>> THEN [err |-> "none", value |-> remapped]
    ELSE LET key == Head(keys)
             parts == Split(key, Dunder)
         IN  IF ~Contains(key, Dunder)
             THEN RemapFrom(params, Tail(keys), With(remapped, key, params[key]))
             ELSE IF Len(parts) # 2
             THEN [err |-> "ValueError", value |-> remapped]
             ELSE IF parts[1] \notin DOMAIN remapped
             THEN [err |-> "KeyError", value |-> remapped]
             ELSE IF ~IsDict(remapped[parts[1]])
             THEN [err |-> "TypeError", value |-> remapped]
             ELSE RemapFrom(params, Tail(keys),
                            With(remapped, parts[1],
                                 DictV(With(remapped[parts[1]].items, parts[2], params[key]))))

Remap(params, dkeys) ==
    RemapFrom(params, Sorted(DOMAIN params), [k \in dkeys |-> DictV(EmptyDict)])

nested_parameter_grid(pd) ==
    IF HasNested(pd)
    THEN IF ReservedKeyUsed(pd)
         THEN [err |-> "AssertionError", expanded |-> FALSE, grid |-> <<>>]
         ELSE IF TooDeep(pd)
         THEN [err |-> "DepthError", expanded |-> FALSE, grid |-> <<>>]
         ELSE LET base == ParameterGrid(new_parameter_dict(pd))
                  items == [n \in 1..Len(base.grid) |->
                               Remap(base.grid[n], dunder_keys(pd))]
                  bad == {n \in 1..Len(items) : items[n].err # "none"}
              IN  IF base.err # "none"
                  THEN [err |-> base.err, expanded |-> FALSE, grid |-> <<>>]
                  ELSE IF bad # {}
                  THEN [err |-> items[CHOOSE n \in bad : \A m \in bad : n <= m].err,
                        expanded |-> TRUE, grid |-> <<>>]
                  ELSE [err |-> "none", expanded |-> TRUE,
                        grid |-> [n \in 1..Len(items) |-> items[n].value]]
    ELSE LET g == ParameterGrid(pd) IN
         [err |-> g.err, expanded |-> g.err = "none", grid |-> g.grid]

\* The parameter dictionaries given to the grid.
kA_ == <<"a", "_">>                   \* the key "a_"
kA__B == <<"a", "_", "_", "b">>       \* the key "a__b"
kB__C == <<"b", "_", "_", "c">>       \* the key "b__c"
kC == <<"c">>
GridTopKeys == {kA, kA_, kA__B}
GridInnerKeys == {kB, kB__C}
CandLists == {ListV([i \in 1..n |-> ToString(i)]) : n \in 1..MaxCands}
Deeper == DictV(kC :> ListV(<<"1">>))
GridInnerDicts == Dicts(GridInnerKeys, CandLists \cup {Deeper})
GridInputs ==
    {d \in Dicts(GridTopKeys, CandLists \cup {DictV(f) : f \in GridInnerDicts}) :
        Cardinality(DOMAIN d) <= MaxTop}

CallGrid ==
    /\ ~gridResult.called
    /\ LET g == nested_parameter_grid(parameter_dict) IN
       gridResult' = [called |-> TRUE, err |-> g.err, expanded |-> g.expanded,
                      grid |-> g.grid]
    /\ UNCHANGED parameter_dict

InitGrid ==
    /\ parameter_dict \in GridInputs
    /\ gridResult = GridNotCalled
    /\ runs = {}
    /\ metrics = {}
    /\ DriverIdle
    /\ GuardIdle
    /\ PurgeIdle
    /\ ResolveIdle
    /\ SaveIdle
    /\ MoreIdle

NextGrid == CallGrid /\ UNCHANGED <<storeVars, driverVars, guardVars, purgeVars, artifactVars, moreVars>>

\* nested_parameter_grid, called once on any parameter dictionary.
SpecGrid == InitGrid /\ [][NextGrid]_vars

\* --------------------------------------------------------------- artifacts
CONTENT_TYPES == {"np.csv", "pd.csv", "pickle"}

\* A check of the content type that lets every type through.
_check_content_type_Any(content_type) == TRUE

\* _check_content_type: TRUE when the assertion passes.
_check_content_type(content_type) == content_type \in CONTENT_TYPES

\* _load_artifact on the artifact with this file id, whose stored content type
\* is info.content_type and whose file deserializes or not (info.loads).  The
\* content type is checked outside the try statement.  A failing deserializer
\* is caught by "except Exception as output" and logged; leaving the except
\* clause unbinds the name output, so "return output" raises UnboundLocalError.
_load_artifact(info, file_id) ==
    IF ~_check_content_type(info.content_type)
    THEN [raised |-> "AssertionError", logged |-> FALSE, output |-> [kind |-> "unbound"]]
    ELSE IF info.loads
    THEN [raised |-> "none", logged |-> FALSE,
          output |-> [kind |-> "value", file_id |-> file_id]]
    ELSE [raised |-> "UnboundLocalError", logged |-> TRUE, output |-> [kind |-> "unbound"]]

\* One pass of the loop of _resolve_id_artifacts.
LoadArtifact ==
    /\ resolvePc = "running"
    /\ row <= Len(frame)
    /\ art < Len(frame[row])
    /\ LET info == frame[row][art + 1]
           r == _load_artifact(info, <<row, art + 1>>)
       IN  /\ warnings' = IF r.logged THEN warnings \cup {<<row, art + 1>>} ELSE warnings
           /\ IF r.raised # "none"
              THEN /\ resolvePc' = "raised"
                   /\ resolveErr' = r.raised
                   /\ UNCHANGED <<art, id_artifacts>>
              ELSE /\ id_artifacts' = With(id_artifacts, info.name, r.output)
                   /\ art' = art + 1
                   /\ UNCHANGED <<resolvePc, resolveErr>>
    /\ UNCHANGED <<frame, row, artifact_dict>>

\* _resolve_id_artifacts returns: artifact_dict[id] is set, the next run follows.
FinishRow ==
    /\ resolvePc = "running"
    /\ row <= Len(frame)
    /\ art = Len(frame[row])
    /\ artifact_dict' = With(artifact_dict, row, id_artifacts)
    /\ row' = row + 1
    /\ art' = 0
    /\ id_artifacts' = <<>>
    /\ UNCHANGED <<frame, resolvePc, resolveErr, warnings>>

\* resolve_artifacts returns artifact_dict.
ReturnDict ==
    /\ resolvePc = "running"
    /\ row > Len(frame)
    /\ resolvePc' = "returned"
    /\ UNCHANGED <<frame, resolveErr, row, art, id_artifacts, artifact_dict, warnings>>

ArtifactInfos == [name : {"x", "y"}, content_type : {"pickle", "json"}, loads : BOOLEAN]
Frames == SeqsUpTo(SeqsUpTo(ArtifactInfos, MaxArtifacts), MaxRows)

InitResolve ==
    /\ frame \in Frames
    /\ resolvePc = "running"
    /\ resolveErr = "none"
    /\ row = 1
    /\ art = 0
    /\ id_artifacts = <<>>
    /\ artifact_dict = <<>>
    /\ warnings = {}
    /\ runs = {}
    /\ metrics = {}
    /\ DriverIdle
    /\ GuardIdle
    /\ PurgeIdle
    /\ GridIdle
    /\ SaveIdle
    /\ MoreIdle

NextResolve ==
    \/ LoadArtifact /\ UNCHANGED <<storeVars, driverVars, guardVars, purgeVars, gridVars, saveVars, moreVars>>
    \/ FinishRow /\ UNCHANGED <<storeVars, driverVars, guardVars, purgeVars, gridVars, saveVars, moreVars>>
    \/ ReturnDict /\ UNCHANGED <<storeVars, driverVars, guardVars, purgeVars, gridVars, saveVars, moreVars>>

\* resolve_artifacts, called once on any frame.
SpecResolve == InitResolve /\ [][NextResolve]_vars

\* The outcome of writing the item in the format of the content type: np.savetxt
\* takes arrays and frames; pd.csv asserts a pandas type; pickle takes what can be
\* pickled; any other content type reaches the final else.
DumpError(item, content_type) ==
    CASE content_type = "np.csv" ->
            IF item \in {"ndarray", "DataFrame"} THEN "none" ELSE "ValueError"
      [] content_type = "pd.csv" ->
            IF item = "DataFrame" THEN "none" ELSE "AssertionError"
      [] content_type = "pickle" ->
            IF item # "lambda" THEN "none" ELSE "PicklingError"
      [] OTHER -> "NotImplementedError"

TmpFile == "tmpfile"                  \* the name mkstemp returns

\* save_artifact: the check of the content type.
SaveCheck ==
    /\ savePc = "call"
    /\ IF _check_content_type(saveCall.content_type)
       THEN savePc' = "mkstemp" /\ UNCHANGED saveErr
       ELSE savePc' = "raised" /\ saveErr' = "AssertionError"
    /\ UNCHANGED <<saveCall, tmpFiles, runArtifacts, ioLog>>

\* tempfile.mkstemp creates the file.
SaveMkstemp ==
    /\ savePc = "mkstemp"
    /\ tmpFiles' = tmpFiles \cup {TmpFile}
    /\ ioLog' = Append(ioLog, "mkstemp")
    /\ savePc' = "dump"
    /\ UNCHANGED <<saveCall, saveErr, runArtifacts>>

\* The item is written in the format of the content type, or that raises.
SaveDump ==
    /\ savePc = "dump"
    /\ LET e == DumpError(saveCall.item, saveCall.content_type) IN
       IF e = "none"
       THEN /\ ioLog' = Append(ioLog, "write")
            /\ savePc' = "attach"
            /\ UNCHANGED saveErr
       ELSE /\ savePc' = "raised"
            /\ saveErr' = e
            /\ UNCHANGED ioLog
    /\ UNCHANGED <<saveCall, tmpFiles, runArtifacts>>

\* _run.add_artifact attaches the file, or raises.
SaveAttach ==
    /\ savePc = "attach"
    /\ \E ok \in BOOLEAN :
          IF ok
          THEN /\ runArtifacts' = Append(runArtifacts,
                                     [name |-> saveCall.name,
                                      content_type |-> saveCall.content_type,
                                      file_existed |-> TmpFile \in tmpFiles])
               /\ ioLog' = Append(ioLog, "add_artifact")
               /\ savePc' = "remove"
               /\ UNCHANGED saveErr
          ELSE /\ savePc' = "raised"
               /\ saveErr' = "add_artifact"
               /\ UNCHANGED <<runArtifacts, ioLog>>
    /\ UNCHANGED <<saveCall, tmpFiles>>

\* os.remove(fname), and the function returns.
SaveRemove ==
    /\ savePc = "remove"
    /\ tmpFiles' = tmpFiles \ {TmpFile}
    /\ ioLog' = Append(ioLog, "remove")
    /\ savePc' = "returned"
    /\ UNCHANGED <<saveCall, saveErr, runArtifacts>>

SaveCalls ==
    [item : {"ndarray", "DataFrame", "object", "lambda"},
     name : {"x", "y"},
     content_type : CONTENT_TYPES \cup {"json", "csv"}]

InitSave ==
    /\ saveCall \in SaveCalls
    /\ savePc = "call"
    /\ saveErr = "none"
    /\ tmpFiles = {}
    /\ runArtifacts = <<>>
    /\ ioLog = <<>>
    /\ runs = {}
    /\ metrics = {}
    /\ DriverIdle
    /\ GuardIdle
    /\ PurgeIdle
    /\ GridIdle
    /\ ResolveIdle
    /\ MoreIdle

NextSave ==
    \/ SaveCheck /\ UNCHANGED <<storeVars, driverVars, guardVars, purgeVars, gridVars, resolveVars, moreVars>>
    \/ SaveMkstemp /\ UNCHANGED <<storeVars, driverVars, guardVars, purgeVars, gridVars, resolveVars, moreVars>>
    \/ SaveDump /\ UNCHANGED <<storeVars, driverVars, guardVars, purgeVars, gridVars, resolveVars, moreVars>>
    \/ SaveAttach /\ UNCHANGED <<storeVars, driverVars, guardVars, purgeVars, gridVars, resolveVars, moreVars>>
    \/ SaveRemove /\ UNCHANGED <<storeVars, driverVars, guardVars, purgeVars, gridVars, resolveVars, moreVars>>

\* save_artifact, called once with any item, name and content type.
SpecSave == InitSave /\ [][NextSave]_vars

\* ------------------------------------------------- what the new parts leave
baseVars == <<storeVars, driverVars, guardVars, purgeVars, gridVars, artifactVars>>

BaseIdle ==
    /\ runs = {}
    /\ metrics = {}
    /\ DriverIdle
    /\ GuardIdle
    /\ PurgeIdle
    /\ GridIdle
    /\ ResolveIdle
    /\ SaveIdle

\* ------------------------------------------- average_metrics_over_seed
\* A frame is a sequence of rows; a row is a function from column names to
\* values.  A column name is the sequence of its dot-separated parts, so that
\* x.startswith("config.") is Head(x) = "config".
NaN == "NaN"                 \* a missing value: a field the run record does not
                             \* have, or one that holds None
idCol == <<"id">>
seedCol == <<"config", "seed">>
aCol == <<"config", "a">>
bCol == <<"config", "b">>
mCol == <<"metrics", "m">>

RECURSIVE SumOf(_, _)
SumOf(f, S) ==
    IF S = {} THEN 0
    ELSE LET x == CHOOSE y \in S : TRUE IN f[x] + SumOf(f, S \ {x})

\* group.mean() of one metric over the rows S of a group: an exact fraction.
GroupMean(fr, col, S) ==
    [num |-> SumOf([i \in S |-> fr[i][col]], S), den |-> Cardinality(S)]

\* group.std(): the sample standard deviation, kept as its square
\* (n * sum(x^2) - sum(x)^2) / (n * (n - 1)); NaN for a group of one row.
GroupStd(fr, col, S) ==
    LET n == Cardinality(S)
        s1 == SumOf([i \in S |-> fr[i][col]], S)
        s2 == SumOf([i \in S |-> fr[i][col] * fr[i][col]], S)
    IN  IF n = 1 THEN [sq_num |-> 0, sq_den |-> 0, nan |-> TRUE]
        ELSE [sq_num |-> n * s2 - s1 * s1, sq_den |-> n * (n - 1), nan |-> FALSE]

\* The rows frame.groupby(config_cols) keeps: a row with a missing value in a
\* key column is in no group (dropna is True by default).
GroupedRows(fr, config_cols) ==
    {i \in DOMAIN fr : \A c \in config_cols : fr[i][c] # NaN}

\* The keys of the groups, and the rows of the group of a key.
GroupKeys(fr, config_cols) ==
    {[c \in config_cols |-> fr[i][c]] : i \in GroupedRows(fr, config_cols)}

GroupOf(fr, config_cols, key) ==
    {i \in GroupedRows(fr, config_cols) : \A c \in config_cols : fr[i][c] = key[c]}

\* list(x.values.reshape(-1)) of the id column of a group: in the order of the rows.
GroupIds(fr, S) ==
    LET picked == SelectSeq([i \in DOMAIN fr |-> i], LAMBDA i : i \in S)
    IN  [j \in DOMAIN picked |-> fr[picked[j]][idCol]]

\* average_metrics_over_seed(frame): the rows of seed_averaged_frame, each with
\* its index (the key of its group); groupby raises ValueError ("No group keys
\* passed!") for an empty list of columns.  latex_string joins the two numbers
\* written as text; the rounding is not modelled.
average_metrics_over_seed(fr) ==
    LET columns == DOMAIN fr[1]
        metric_cols == {x \in columns : Head(x) = "metrics"}
        config_cols == {x \in columns : Head(x) = "config" /\ x # seedCol}
    IN  IF config_cols = {}
        THEN [err |-> "ValueError", rows |-> {}]
        ELSE [err |-> "none",
              rows |-> {[index |-> key,
                         mean |-> [m \in metric_cols |->
                                     GroupMean(fr, m, GroupOf(fr, config_cols, key))],
                         std |-> [m \in metric_cols |->
                                     GroupStd(fr, m, GroupOf(fr, config_cols, key))],
                         latex_string |-> [m \in metric_cols |->
                                     <<GroupMean(fr, m, GroupOf(fr, config_cols, key)),
                                       " /pm ",
                                       GroupStd(fr, m, GroupOf(fr, config_cols, key))>>],
                         run_ids |-> GroupIds(fr, GroupOf(fr, config_cols, key))]
                        : key \in GroupKeys(fr, config_cols)}]

\* The frames given: rows of runs with ids and seeds 1, 2, ..., one metric, and
\* any of the configuration columns a and b besides the seed.
MetricValues == {10, 20, 30}

AvgAssignments(cols) ==
    {f \in [cols -> {"1", "2", NaN}] :
        /\ aCol \in cols => f[aCol] \in {"1", NaN}
        /\ bCol \in cols => f[bCol] \in {"1", "2"}}

AvgFramesOf(cols, n) ==
    {[i \in 1..n |-> (idCol :> i) @@ (seedCol :> i) @@ (mCol :> g[i].m) @@ g[i].f] :
        g \in [1..n -> [f : AvgAssignments(cols), m : MetricValues]]}

AvgFrames(max) ==
    UNION {UNION {AvgFramesOf(cols, n) : n \in 1..max} : cols \in SUBSET {aCol, bCol}}

CallAverage ==
    /\ ~avgResult.called
    /\ LET a == average_metrics_over_seed(avgFrame) IN
       avgResult' = [called |-> TRUE, err |-> a.err, rows |-> a.rows]
    /\ UNCHANGED <<avgFrame, dfRecords, dfArgs, dfResult>>

InitAverage ==
    /\ avgFrame \in AvgFrames(MaxFrameRows)
    /\ avgResult = AvgNotCalled
    /\ dfRecords = <<>>
    /\ dfArgs = [completed_only |-> TRUE, open_metrics |-> TRUE]
    /\ dfResult = DfNotCalled
    /\ FolderIdle
    /\ CallsIdle
    /\ BaseIdle

NextAverage == CallAverage /\ UNCHANGED <<baseVars, folderVars, callVars>>

\* average_metrics_over_seed, called once on any frame.
SpecAverage == InitAverage /\ [][NextAverage]_vars

\* ------------------------------------------------------------ get_dataframe
\* The cells of the frame mdbh.get_dataframe returns: a number, a missing value
\* (a float), a list, a tuple, or a dict (DictV) from keys to cells.
IntCell == [kind |-> "int"]
NaNCell == [kind |-> "nan"]
ListCell(items) == [kind |-> "list", items |-> items]
TupleCell(items) == [kind |-> "tuple", items |-> items]
IsList(x) == x.kind = "list"          \* isinstance(entry, list)

statusCol == <<"status">>
tCol == <<"config", "t">>
pyTuple == "py/tuple"

\* all([len(entry) == 1, isinstance(entry.get("py/tuple"), list)])
IsPyTupleDict(entry) ==
    /\ Cardinality(DOMAIN entry.items) = 1
    /\ pyTuple \in DOMAIN entry.items
    /\ IsList(entry.items[pyTuple])

\* tuple(x): of a list its items, of a dict its keys; a number or a missing value
\* is not iterable.
ToTuple(x) ==
    CASE x.kind = "list" -> [err |-> "none", value |-> TupleCell(x.items)]
      [] x.kind = "tuple" -> [err |-> "none", value |-> x]
      [] x.kind = "dict" ->
            [err |-> "none",
             value |-> TupleCell(CHOOSE o \in Orders(DOMAIN x.items) : TRUE)]
      [] OTHER -> [err |-> "TypeError", value |-> x]

\* tuple(x["py/tuple"]): only a dict can be indexed by a string, and only one that
\* has the key.
FromPyTuple(x) ==
    IF x.kind # "dict" THEN [err |-> "TypeError", value |-> x]
    ELSE IF pyTuple \notin DOMAIN x.items THEN [err |-> "KeyError", value |-> x]
    ELSE ToTuple(x.items[pyTuple])

\* frame[col] = frame[col].apply(conv): conv is applied to the cell of every row,
\* and the exception of the first row it fails on leaves apply.
ApplyTuple(fr, col) ==
    LET bad == {i \in DOMAIN fr : ToTuple(fr[i][col]).err # "none"} IN
    IF bad # {}
    THEN [err |-> ToTuple(fr[CHOOSE i \in bad : \A j \in bad : i <= j][col]).err,
          frame |-> fr]
    ELSE [err |-> "none",
          frame |-> [i \in DOMAIN fr |-> With(fr[i], col, ToTuple(fr[i][col]).value)]]

ApplyFromPyTuple(fr, col) ==
    LET bad == {i \in DOMAIN fr : FromPyTuple(fr[i][col]).err # "none"} IN
    IF bad # {}
    THEN [err |-> FromPyTuple(fr[CHOOSE i \in bad : \A j \in bad : i <= j][col]).err,
          frame |-> fr]
    ELSE [err |-> "none",
          frame |-> [i \in DOMAIN fr |-> With(fr[i], col, FromPyTuple(fr[i][col]).value)]]

\* One pass of the loop of _convert_dict_elements: the cell of the first row alone
\* decides what is done with the column; frame.iloc[0] of a frame without rows
\* raises IndexError.
ConvertColumn(fr, col) ==
    IF fr = <<>> THEN [err |-> "IndexError", frame |-> fr, warned |-> FALSE]
    ELSE LET entry == fr[1][col] IN
         IF IsList(entry)
         THEN [err |-> ApplyTuple(fr, col).err, frame |-> ApplyTuple(fr, col).frame,
               warned |-> FALSE]
         ELSE IF IsDict(entry)
         THEN IF IsPyTupleDict(entry)
              THEN [err |-> ApplyFromPyTuple(fr, col).err,
                    frame |-> ApplyFromPyTuple(fr, col).frame, warned |-> FALSE]
              ELSE [err |-> "none", frame |-> fr, warned |-> TRUE]
         ELSE [err |-> "none", frame |-> fr, warned |-> FALSE]

\* _convert_dict_elements(frame, columns), from the k-th column on.
RECURSIVE ConvertFrom(_, _, _, _)
ConvertFrom(fr, columns, k, warned) ==
    IF k > Len(columns) THEN [err |-> "none", frame |-> fr, warned |-> warned]
    ELSE LET c == ConvertColumn(fr, columns[k]) IN
         IF c.err # "none" THEN [err |-> c.err, frame |-> fr, warned |-> warned]
         ELSE ConvertFrom(c.frame, columns, k + 1, warned \/ c.warned)

_convert_dict_elements(fr, columns) == ConvertFrom(fr, columns, 1, FALSE)

\* metric_opener: a list of one element is replaced by the element.
metric_opener(x) == IF Len(x.items) = 1 THEN IntCell ELSE x

\* _get_prefixed_elements(frame.columns, prefix)
_get_prefixed_elements(columns, prefix) == SelectSeq(columns, LAMBDA x : Head(x) = prefix)

\* get_dataframe, on the frame mdbh.get_dataframe returns with its columns.
get_dataframe(records, columns, completed_only, open_metrics) ==
    LET fr == IF completed_only
              THEN SelectSeq(records, LAMBDA r : r[statusCol] = COMPLETED)
              ELSE records
        config_cols == _get_prefixed_elements(columns, "config")
        metric_cols == _get_prefixed_elements(columns, "metrics")
        c == _convert_dict_elements(fr, config_cols)
        opened == [i \in DOMAIN c.frame |->
                     [x \in DOMAIN c.frame[i] |->
                        IF \E k \in DOMAIN metric_cols : metric_cols[k] = x
                        THEN metric_opener(c.frame[i][x]) ELSE c.frame[i][x]]]
    IN  IF c.err # "none" THEN [err |-> c.err, frame |-> <<>>, warned |-> c.warned]
        ELSE [err |-> "none", frame |-> IF open_metrics THEN opened ELSE c.frame,
              warned |-> c.warned]

\* The run records loaded: a status, one configuration field and one metric.
DfColumns == <<statusCol, tCol, mCol>>

ConfigCells ==
    {IntCell, NaNCell, ListCell(<<"1", "2">>),
     DictV(pyTuple :> ListCell(<<"1", "2">>)),
     DictV(pyTuple :> IntCell),
     DictV("k" :> IntCell),
     DictV((pyTuple :> ListCell(<<"1", "2">>)) @@ ("k" :> IntCell))}

MetricCells == {ListCell(<<"1">>), ListCell(<<"1", "2">>)}

DfRecordSets(max) ==
    UNION {{[i \in 1..n |-> (statusCol :> g[i].status) @@ (tCol :> g[i].t) @@ (mCol :> g[i].m)] :
               g \in [1..n -> [status : {COMPLETED, FAILED}, t : ConfigCells, m : MetricCells]]}
           : n \in 1..max}

CallGetDataframe ==
    /\ ~dfResult.called
    /\ LET d == get_dataframe(dfRecords, DfColumns, dfArgs.completed_only, dfArgs.open_metrics)
       IN  dfResult' = [called |-> TRUE, err |-> d.err, frame |-> d.frame, warned |-> d.warned]
    /\ UNCHANGED <<avgFrame, avgResult, dfRecords, dfArgs>>

InitDataframe ==
    /\ dfRecords \in DfRecordSets(MaxRecords)
    /\ dfArgs \in [completed_only : BOOLEAN, open_metrics : BOOLEAN]
    /\ dfResult = DfNotCalled
    /\ avgFrame = <<>>
    /\ avgResult = AvgNotCalled
    /\ FolderIdle
    /\ CallsIdle
    /\ BaseIdle

NextDataframe == CallGetDataframe /\ UNCHANGED <<baseVars, folderVars, callVars>>

\* get_dataframe, called once on any set of run records.
SpecDataframe == InitDataframe /\ [][NextDataframe]_vars

\* ------------------------------------------------------- JsonFolderIterator
\* Configuration values that are written to the files: a number, a list or a
\* tuple.  json.dump writes a list and a tuple as the same array; json.load reads
\* an array as a list.
IntValue(i) == [kind |-> "int", v |-> i]

JsonEncode(x) ==
    IF x.kind = "int" THEN [json |-> "number", v |-> x.v]
    ELSE [json |-> "array", items |-> x.items]

JsonDecode(t) ==
    IF t.json = "number" THEN IntValue(t.v) ELSE ListCell(t.items)

\* json.dump(data, outfile) and json.load(json_file) of a configuration.
JsonDump(data) == [k \in DOMAIN data |-> JsonEncode(data[k])]
JsonLoad(text) == [k \in DOMAIN text |-> JsonDecode(text[k])]

\* _get_json_func(file) succeeds for a name that ends with json or json5.
_get_json_func(file) == file.suffix \in {"json", "json5"}

\* dump_config_list_to_json_tmpfiles(config_list): the files of the new folder;
\* enumerate counts from 0.
dump_config_list_to_json_tmpfiles(configs) ==
    [f \in {FileName(i - 1) : i \in DOMAIN configs} |-> JsonDump(configs[f.index + 1])]

\* A removal that succeeds whether or not the file is there.
os_remove_MissingOk(dir, file) ==
    [ok |-> TRUE, files |-> [f \in DOMAIN dir \ {file} |-> dir[f]]]

\* os.remove(file): removes the file if it is there, else FileNotFoundError.
os_remove(dir, file) ==
    [ok |-> file \in DOMAIN dir, files |-> [f \in DOMAIN dir \ {file} |-> dir[f]]]

\* A removal of the folder that leaves it in place.
os_rmdir_Keeps(exists, dir) == [err |-> "none", exists |-> exists]

\* os.rmdir(folder): removes the folder if it is there and empty.
os_rmdir(exists, dir) ==
    IF ~exists THEN [err |-> "FileNotFoundError", exists |-> exists]
    ELSE IF DOMAIN dir # {} THEN [err |-> "OSError", exists |-> exists]
    ELSE [err |-> "none", exists |-> FALSE]

\* The exception that ends the work of a worker, at the place it is raised.
Ended(w, exc, at) ==
    /\ wpc' = [wpc EXCEPT ![w] = "ended"]
    /\ wend' = [wend EXCEPT ![w] = [exc |-> exc, at |-> at]]

\* The folder is written, once, before any iterator is made.
Dump ==
    /\ ~dumped
    /\ dumped' = TRUE
    /\ folderExists' = TRUE
    /\ folderFiles' = dump_config_list_to_json_tmpfiles(config_list)
    /\ UNCHANGED <<config_list, randomise, workers, wpc, wsite, wfile, wconfig, wend,
                   yielded, removedBy>>

\* JsonFolderIterator(folder, randomise): __init__ evaluates self.files.
NewIterator(w) ==
    /\ dumped
    /\ w \in workers
    /\ wpc[w] = "new"
    /\ wpc' = [wpc EXCEPT ![w] = "isdir"]
    /\ wsite' = [wsite EXCEPT ![w] = "__init__"]
    /\ UNCHANGED <<config_list, randomise, workers, dumped, folderExists, folderFiles,
                   wfile, wconfig, wend, yielded, removedBy>>

\* The property files, first half: self.exists; StopIteration if the folder is
\* not there.
FilesIsdir(w) ==
    /\ w \in workers
    /\ wpc[w] = "isdir"
    /\ IF folderExists
       THEN wpc' = [wpc EXCEPT ![w] = "listdir"] /\ UNCHANGED wend
       ELSE Ended(w, "StopIteration", wsite[w])
    /\ UNCHANGED <<config_list, randomise, workers, dumped, folderExists, folderFiles,
                   wsite, wfile, wconfig, yielded, removedBy>>

\* The property files, second half: os.listdir(self.folder), and what the caller
\* does with the list: __init__ asserts the suffixes, __len__ takes the length
\* for the test of __next__, next_file picks a file: random.choice(files), or
\* files[0], the first of a list that os.listdir returns in arbitrary order.
FilesListdir(w) ==
    /\ w \in workers
    /\ wpc[w] = "listdir"
    /\ LET files == DOMAIN folderFiles IN
       IF ~folderExists
       THEN Ended(w, "FileNotFoundError", wsite[w]) /\ UNCHANGED <<wsite, wfile>>
       ELSE CASE wsite[w] = "__init__" ->
                    IF \A f \in files : f.suffix = "json"
                    THEN /\ wpc' = [wpc EXCEPT ![w] = "isdir"]
                         /\ wsite' = [wsite EXCEPT ![w] = "__len__"]
                         /\ UNCHANGED <<wend, wfile>>
                    ELSE Ended(w, "AssertionError", wsite[w]) /\ UNCHANGED <<wsite, wfile>>
              [] wsite[w] = "__len__" ->
                    /\ IF Cardinality(files) > 0
                       THEN /\ wpc' = [wpc EXCEPT ![w] = "isdir"]
                            /\ wsite' = [wsite EXCEPT ![w] = "next_file"]
                       ELSE /\ wpc' = [wpc EXCEPT ![w] = "exists"]
                            /\ UNCHANGED wsite
                    /\ UNCHANGED <<wend, wfile>>
              [] OTHER ->
                    IF files = {}
                    THEN Ended(w, "IndexError", wsite[w]) /\ UNCHANGED <<wsite, wfile>>
                    ELSE /\ \E file \in files : wfile' = [wfile EXCEPT ![w] = file]
                         /\ wpc' = [wpc EXCEPT ![w] = "load"]
                         /\ UNCHANGED <<wend, wsite>>
    /\ UNCHANGED <<config_list, randomise, workers, dumped, folderExists, folderFiles,
                   wconfig, yielded, removedBy>>

\* config = load_json(file): open raises if the file is not there any more.
LoadJson(w) ==
    /\ w \in workers
    /\ wpc[w] = "load"
    /\ IF ~_get_json_func(wfile[w])
       THEN Ended(w, "NotImplementedError", "load_json") /\ UNCHANGED wconfig
       ELSE IF folderExists /\ wfile[w] \in DOMAIN folderFiles
       THEN /\ wconfig' = [wconfig EXCEPT ![w] = JsonLoad(folderFiles[wfile[w]])]
            /\ wpc' = [wpc EXCEPT ![w] = "remove"]
            /\ UNCHANGED wend
       ELSE Ended(w, "FileNotFoundError", "load_json") /\ UNCHANGED wconfig
    /\ UNCHANGED <<config_list, randomise, workers, dumped, folderExists, folderFiles,
                   wsite, wfile, yielded, removedBy>>

\* os.remove(file) and return config; the caller then calls __next__ again.
RemoveAndReturn(w) ==
    /\ w \in workers
    /\ wpc[w] = "remove"
    /\ LET r == os_remove(folderFiles, wfile[w]) IN
       IF r.ok
       THEN /\ folderFiles' = r.files
            /\ removedBy' = removedBy \cup
                   {[file |-> wfile[w], worker |-> w] : x \in {wfile[w]} \cap DOMAIN folderFiles}
            /\ yielded' = [yielded EXCEPT ![w] =
                             Append(@, [file |-> wfile[w], config |-> wconfig[w],
                                        deleted |-> wfile[w] \notin DOMAIN r.files])]
            /\ wpc' = [wpc EXCEPT ![w] = "isdir"]
            /\ wsite' = [wsite EXCEPT ![w] = "__len__"]
            /\ wfile' = [wfile EXCEPT ![w] = NoFile]
            /\ wconfig' = [wconfig EXCEPT ![w] = <<>>]
            /\ UNCHANGED wend
       ELSE /\ Ended(w, "FileNotFoundError", "os.remove")
            /\ UNCHANGED <<folderFiles, removedBy, yielded, wsite, wfile, wconfig>>
    /\ UNCHANGED <<config_list, randomise, workers, dumped, folderExists>>

\* The else branch of __next__: if self.exists.
ExistsBeforeRmdir(w) ==
    /\ w \in workers
    /\ wpc[w] = "exists"
    /\ IF folderExists
       THEN wpc' = [wpc EXCEPT ![w] = "rmdir"] /\ UNCHANGED wend
       ELSE Ended(w, "StopIteration", "__next__")
    /\ UNCHANGED <<config_list, randomise, workers, dumped, folderExists, folderFiles,
                   wsite, wfile, wconfig, yielded, removedBy>>

\* os.rmdir(self.folder) and raise StopIteration.
RmdirAndStop(w) ==
    /\ w \in workers
    /\ wpc[w] = "rmdir"
    /\ LET r == os_rmdir(folderExists, folderFiles) IN
       /\ folderExists' = r.exists
       /\ IF r.err = "none" THEN Ended(w, "StopIteration", "__next__")
          ELSE Ended(w, r.err, "os.rmdir")
    /\ UNCHANGED <<config_list, randomise, workers, dumped, folderFiles,
                   wsite, wfile, wconfig, yielded, removedBy>>

\* The configuration lists written: for one iterator, any list of configurations
\* with a number, a list or a tuple; for several workers, configurations 1, 2, ...
FolderConfigs ==
    {("a" :> IntValue(1)), ("a" :> IntValue(2)),
     ("a" :> ListCell(<<"1", "2">>)), ("a" :> TupleCell(<<"1", "2">>))}

NumberedConfigs(n) == [i \in 1..n |-> ("a" :> IntValue(i))]

InitWorkers ==
    /\ config_list \in {NumberedConfigs(n) : n \in 0..MaxFiles}
    /\ randomise \in BOOLEAN
    /\ workers = Workers
    /\ FolderStart
    /\ ParseIdle
    /\ CallsIdle
    /\ BaseIdle

NextWorkers ==
    \/ Dump /\ UNCHANGED <<baseVars, parseVars, callVars>>
    \/ \E w \in Workers : NewIterator(w) /\ UNCHANGED <<baseVars, parseVars, callVars>>
    \/ \E w \in Workers : FilesIsdir(w) /\ UNCHANGED <<baseVars, parseVars, callVars>>
    \/ \E w \in Workers : FilesListdir(w) /\ UNCHANGED <<baseVars, parseVars, callVars>>
    \/ \E w \in Workers : LoadJson(w) /\ UNCHANGED <<baseVars, parseVars, callVars>>
    \/ \E w \in Workers : RemoveAndReturn(w) /\ UNCHANGED <<baseVars, parseVars, callVars>>
    \/ \E w \in Workers : ExistsBeforeRmdir(w) /\ UNCHANGED <<baseVars, parseVars, callVars>>
    \/ \E w \in Workers : RmdirAndStop(w) /\ UNCHANGED <<baseVars, parseVars, callVars>>

InitIterate ==
    /\ config_list \in SeqsUpTo(FolderConfigs, MaxFiles)
    /\ randomise \in BOOLEAN
    /\ workers = {1}
    /\ FolderStart
    /\ ParseIdle
    /\ CallsIdle
    /\ BaseIdle

\* One iterator over a folder just written; the process that iterates keeps
\* taking steps.
SpecIterate == InitIterate /\ [][NextWorkers]_vars /\ WF_vars(NextWorkers)

\* Worker processes that iterate the same folder, their steps interleaved.
SpecWorkers == InitWorkers /\ [][NextWorkers]_vars

\* ------------------------------- run_configuration called by worker processes
\* Two processes.  Each has its own experiment, with a MongoObserver of the shared store
\* attached, and calls run_configuration(ex, config, observer) for each
\* configuration of the same list; a call that raises is caught by the caller,
\* which goes on with the next configuration.  The three statements of
\* run_configuration are steps of their own: the other process acts in between.
Procs == {1, 2}

\* A runner that looks at the store again before it runs.
InvokeRunner_ChecksAgain(coll, ing, top, config, outcome) ==
    IF _check_if_run(coll, config).has_run
    THEN [invoked |-> FALSE, raised |-> FALSE, runs |-> coll]
    ELSE [invoked |-> TRUE,
          raised |-> ex_run(coll, <<MongoObserverObj>>, ing, top, outcome).raised,
          runs |-> ex_run(coll, <<MongoObserverObj>>, ing, top, outcome).runs]

\* ex.run(config_updates=top_level_config), the last statement of
\* run_configuration: nothing is asked of the store before it.
InvokeRunner(coll, ing, top, config, outcome) ==
    [invoked |-> TRUE,
     raised |-> ex_run(coll, <<MongoObserverObj>>, ing, top, outcome).raised,
     runs |-> ex_run(coll, <<MongoObserverObj>>, ing, top, outcome).runs]

\* The entry of the history of a process for a call that has ended.
CallEntry(p, config, passed, invoked, raised, after, duplicate) ==
    [config |-> config, passed |-> passed, invoked |-> invoked, raised |-> raised,
     before |-> cBefore[p], after |-> after, duplicate |-> duplicate]

\* top_level_config = _update_ingredient_params(ex, params=config.copy())
Route(p) ==
    /\ cpc[p] = "route"
    /\ callIdx[p] < Len(calls)
    /\ LET config == calls[callIdx[p] + 1] IN
       \E order \in Orders(DOMAIN config) :
          LET u == _update_ingredient_params(cIng[p], config, order) IN
          /\ cIng' = [cIng EXCEPT ![p] = u.ingredients]
          /\ cBefore' = [cBefore EXCEPT ![p] = cIng[p]]
          /\ IF u.raised
             THEN /\ callLog' = [callLog EXCEPT ![p] =
                        Append(@, [config |-> config, passed |-> FALSE, invoked |-> FALSE,
                                   raised |-> TRUE, before |-> cIng[p],
                                   after |-> u.ingredients, duplicate |-> FALSE])]
                  /\ callIdx' = [callIdx EXCEPT ![p] = @ + 1]
                  /\ UNCHANGED <<cpc, cTop>>
             ELSE /\ cTop' = [cTop EXCEPT ![p] = u.params]
                  /\ cpc' = [cpc EXCEPT ![p] = "check"]
                  /\ UNCHANGED <<callLog, callIdx>>
    /\ UNCHANGED <<storeVars, calls>>

\* if observer is not None: if _check_if_run(observer, config): return None
Check(p) ==
    /\ cpc[p] = "check"
    /\ LET config == calls[callIdx[p] + 1]
           g == _check_if_run(runs, config)
       IN  IF g.raised \/ g.has_run
           THEN /\ callLog' = [callLog EXCEPT ![p] =
                      Append(@, CallEntry(p, config, FALSE, FALSE, g.raised, cIng[p], FALSE))]
                /\ callIdx' = [callIdx EXCEPT ![p] = @ + 1]
                /\ cpc' = [cpc EXCEPT ![p] = "route"]
           ELSE /\ cpc' = [cpc EXCEPT ![p] = "run"]
                /\ UNCHANGED <<callLog, callIdx>>
    /\ UNCHANGED <<storeVars, calls, cIng, cTop, cBefore>>

\* ex.run(config_updates=top_level_config)
Run(p) ==
    /\ cpc[p] = "run"
    /\ LET config == calls[callIdx[p] + 1] IN
       \E outcome \in {"ok", "raise"} :
          LET r == InvokeRunner(runs, cIng[p], cTop[p], config, outcome) IN
          /\ runs' = r.runs
          /\ callLog' = [callLog EXCEPT ![p] =
                Append(@, CallEntry(p, config, TRUE, r.invoked, r.raised, cIng[p],
                                    _check_if_run(runs, config).has_run))]
    /\ callIdx' = [callIdx EXCEPT ![p] = @ + 1]
    /\ cpc' = [cpc EXCEPT ![p] = "route"]
    /\ UNCHANGED <<metrics, calls, cIng, cTop, cBefore>>

\* The configurations of the list and the stores the processes start on: empty,
\* or with the record of a completed run of cIng2.
CallConfigs == {cA1, cA2, cIng2, cOther}

CallStores == {{}, {[_id |-> 1, status |-> COMPLETED, config |-> cIng2]}}

InitCalls ==
    /\ runs \in CallStores
    /\ metrics = {}
    /\ calls \in SeqsUpTo(CallConfigs, MaxCalls)
    /\ callIdx = [p \in Procs |-> 0]
    /\ cpc = [p \in Procs |-> "route"]
    /\ cIng = [p \in Procs |-> (kIng :> EmptyDict)]
    /\ cTop = [p \in Procs |-> EmptyDict]
    /\ cBefore = [p \in Procs |-> (kIng :> EmptyDict)]
    /\ callLog = [p \in Procs |-> <<>>]
    /\ DriverIdle
    /\ GuardIdle
    /\ PurgeIdle
    /\ GridIdle
    /\ ResolveIdle
    /\ SaveIdle
    /\ ParseIdle
    /\ FolderIdle

NextCalls ==
    \/ \E p \in Procs : Route(p) /\ UNCHANGED <<driverVars, guardVars, purgeVars, gridVars, artifactVars, parseVars, folderVars>>
    \/ \E p \in Procs : Check(p) /\ UNCHANGED <<driverVars, guardVars, purgeVars, gridVars, artifactVars, parseVars, folderVars>>
    \/ \E p \in Procs : Run(p) /\ UNCHANGED <<driverVars, guardVars, purgeVars, gridVars, artifactVars, parseVars, folderVars>>

\* Processes launched on the same list of configurations and the same store.
SpecCalls == InitCalls /\ [][NextCalls]_vars

\* ------------------------------------------------------------------ claims
Raised(l) == {n \in 1..Len(l) : l[n].raised}

\* C1 (as claimed): with a store client, every configuration that passed the
\* routing of its nested keys is given to the experiment runner if and only if
\* the guard finds no matching run record in the store.
C1_RunnerInvokedIffNoMatch ==
    client => \A n \in 1..Len(log) :
                 log[n].routed => (log[n].invoked <=> ~log[n].matched)

\* C2 (as claimed): the error count reported at the end is the number of
\* configurations whose run raised.
C2_ReportedCountIsRaisedCount ==
    pc = "done" => reported = Cardinality(Raised(log))

\* C3: no exception of a run leaves the loop; the configurations taken so far are
\* those of the iterator, in its order, and at the end all of them were taken.
C3_EveryConfigurationAttempted ==
    /\ pc # "raised"
    /\ Len(log) = idx
    /\ \A n \in 1..Len(log) : log[n].config = configuration_iterator[n]
    /\ pc = "done" => Len(log) = Len(configuration_iterator)

\* C3 witness: the run of the first configuration raised, and a later one was
\* still run before the driver finished.
C3_Witness ==
    /\ pc = "done"
    /\ Len(log) >= 2
    /\ log[1].raised
    /\ log[2].invoked

\* The stored configuration holds every top-level scalar field and every inner
\* field of every nested mapping of config with an equal value.
ContainsConfig(stored, config) ==
    \A k \in DOMAIN config :
        IF IsDict(config[k])
        THEN \A i \in DOMAIN config[k].items :
                /\ k \in DOMAIN stored
                /\ IsDict(stored[k])
                /\ i \in DOMAIN stored[k].items
                /\ stored[k].items[i] = config[k].items[i]
        ELSE k \in DOMAIN stored /\ stored[k] = config[k]

MatchCount == Cardinality({r \in runs : ContainsConfig(r.config, gConfig)})

VerdictOfCount ==
    /\ ~gResult.raised
    /\ gResult.has_run = (MatchCount >= 1)
    /\ gResult.warned = (MatchCount > 1)

\* The keys of a configuration, top-level and inner.
AllKeys(config) ==
    DOMAIN config \cup UNION {DOMAIN config[k].items :
                                 k \in {k \in DOMAIN config : IsDict(config[k])}}

\* The scalar values of a configuration, top-level and inner.
AllScalars(config) ==
    {config[k].val : k \in {k \in DOMAIN config : ~IsDict(config[k])}}
    \cup UNION {{config[k].items[i].val : i \in DOMAIN config[k].items} :
                   k \in {k \in DOMAIN config : IsDict(config[k])}}

\* C4 (as claimed): for every configuration and store the guard's verdict is
\* that of the number of stored records containing the configuration.
C4_VerdictForEveryConfig == gResult.called => VerdictOfCount

\* What holds of C4: the same, for a configuration with at least one scalar
\* field, no "." in a key and no null value.
GuardVerdictForPlainConfig ==
    /\ gResult.called
    /\ AllScalars(gConfig) # {}
    /\ None \notin AllScalars(gConfig)
    /\ \A k \in AllKeys(gConfig) : ~Contains(k, Dot)
    => VerdictOfCount

\* Such a configuration with a nested field that two stored records contain,
\* one of them with a further field: run, with a warning.
GuardWarnedWitness ==
    /\ gResult.called
    /\ gConfig = (kA :> DictV(kB :> Scalar("1")))
    /\ {r.config : r \in runs} = {sNest, sNestB}
    /\ MatchCount = 2
    /\ gResult.has_run
    /\ gResult.warned

Complete(r) == r.status \in {COMPLETED, RUNNING}

Slots(pd) ==
    {<<k>> : k \in {k \in DOMAIN pd : ~IsDict(pd[k])}}
    \cup UNION {{<<k, i>> : i \in DOMAIN pd[k].items} :
                   k \in {k \in DOMAIN pd : IsDict(pd[k])}}

CandsOf(pd, slot) ==
    IF Len(slot) = 1 THEN pd[slot[1]].cands ELSE pd[slot[1]].items[slot[2]].cands

\* One candidate (by position) per parameter.
Choices(pd) ==
    {c \in [Slots(pd) -> 1..MaxCands] : \A sl \in Slots(pd) : c[sl] <= Len(CandsOf(pd, sl))}

\* The concrete configuration of a choice, in the nesting of the input.
ItemOf(pd, c) ==
    [k \in DOMAIN pd |->
        IF IsDict(pd[k])
        THEN DictV([i \in DOMAIN pd[k].items |-> Scalar(pd[k].items[i].cands[c[<<k, i>>]])])
        ELSE Scalar(pd[k].cands[c[<<k>>]])]

\* Every combination once, and nothing but the input's keys.
IsFullGrid(pd, grid) ==
    /\ Len(grid) = Cardinality(Choices(pd))
    /\ \A c \in Choices(pd) :
          Cardinality({n \in 1..Len(grid) : grid[n] = ItemOf(pd, c)}) = 1
    /\ \A n \in 1..Len(grid) :
          /\ DOMAIN grid[n] = DOMAIN pd
          /\ \A k \in DOMAIN pd :
                IsDict(pd[k]) => /\ IsDict(grid[n][k])
                                 /\ DOMAIN grid[n][k].items = DOMAIN pd[k].items

SeparatorInTopKey(pd) == \E k \in DOMAIN pd : Contains(k, <<"_", "_">>)

NestedMappingIn(pd) == \E k \in DOMAIN pd : pd[k].kind = "dict"

TwoLevelsIn(pd) ==
    \E k \in DOMAIN pd : /\ pd[k].kind = "dict"
                         /\ \E i \in DOMAIN pd[k].items : pd[k].items[i].kind = "dict"

\* C6 (as claimed): for a dictionary with at most one level of nesting and no
\* "__" in a top-level key the result is the full grid, every combination once,
\* in the nesting and with the keys of the input.
C6_FullGridForOneLevel ==
    /\ gridResult.called
    /\ ~TwoLevelsIn(parameter_dict)
    /\ ~SeparatorInTopKey(parameter_dict)
    => gridResult.err = "none" /\ IsFullGrid(parameter_dict, gridResult.grid)

\* What holds of C6: the full grid is returned when moreover no inner key holds
\* "__" and no key of a nested mapping ends with "_".
GridForKeysThatSplitBack ==
    /\ gridResult.called
    /\ ~TwoLevelsIn(parameter_dict)
    /\ ~SeparatorInTopKey(parameter_dict)
    /\ \A k \in DOMAIN parameter_dict :
          parameter_dict[k].kind = "dict" =>
             /\ k[Len(k)] # "_"
             /\ \A i \in DOMAIN parameter_dict[k].items : ~Contains(i, <<"_", "_">>)
    => gridResult.err = "none" /\ IsFullGrid(parameter_dict, gridResult.grid)

\* C7 (as claimed): a "__" in a top-level key makes the call raise, with or
\* without nested mappings.
C7_SeparatorAlwaysRaises ==
    gridResult.called /\ SeparatorInTopKey(parameter_dict)
    => gridResult.err # "none" /\ gridResult.grid = <<>>

\* C7 (amended): a "__" in a top-level key of a dictionary that has a nested
\* mapping makes the call raise before any expansion, and no grid is returned.
C7_SeparatorRaisesWhenNested ==
    /\ gridResult.called
    /\ SeparatorInTopKey(parameter_dict)
    /\ NestedMappingIn(parameter_dict)
    => /\ gridResult.err = "AssertionError"
       /\ ~gridResult.expanded
       /\ gridResult.grid = <<>>

\* C7 witness: {"a__b": [1, 2], "a": {"b": [1]}} was refused.
C7_Witness ==
    /\ gridResult.called
    /\ parameter_dict = (kA__B :> ListV(<<"1", "2">>)) @@ (kA :> DictV(kB :> ListV(<<"1">>)))
    /\ gridResult.err = "AssertionError"

\* C8 (as claimed): two levels of nesting raise the depth error, and nothing is
\* returned.
C8_TwoLevelsRaiseDepthError ==
    gridResult.called /\ TwoLevelsIn(parameter_dict)
    => gridResult.err = "DepthError" /\ gridResult.grid = <<>>

\* C8 (amended): two levels of nesting raise and nothing is returned, wherever
\* the too-deep value is: the depth error, unless a top-level key holds "__",
\* which the assertion made first refuses.
C8_TwoLevelsRaise ==
    gridResult.called /\ TwoLevelsIn(parameter_dict)
    => /\ gridResult.grid = <<>>
       /\ ~gridResult.expanded
       /\ gridResult.err = IF SeparatorInTopKey(parameter_dict)
                           THEN "AssertionError" ELSE "DepthError"

\* C8 witness: the too-deep value is in the second of two nested mappings.
C8_Witness ==
    /\ gridResult.called
    /\ parameter_dict = (kA :> DictV(kB :> ListV(<<"1">>))) @@ (kA_ :> DictV(kB :> Deeper))
    /\ gridResult.err = "DepthError"
    /\ gridResult.grid = <<>>

\* The artifacts of run r with this name, by position in its list.
Named(r, name) == {n \in 1..Len(frame[r]) : frame[r][n].name = name}

Last(S) == CHOOSE n \in S : \A m \in S : m <= n

\* C9 (as claimed): when every stored content type is a supported one, a
\* resolution pass is never aborted; it returns, for every run and every artifact
\* name of the run, the loaded value, or the error where loading failed, and
\* each failure was logged.
C9_FailedArtifactDoesNotAbort ==
    (\A r \in 1..Len(frame) : \A n \in 1..Len(frame[r]) :
        frame[r][n].content_type \in {"np.csv", "pd.csv", "pickle"})
    => /\ resolvePc # "raised"
       /\ resolvePc = "returned" =>
             /\ DOMAIN artifact_dict = 1..Len(frame)
             /\ \A r \in 1..Len(frame) :
                   /\ DOMAIN artifact_dict[r] = {frame[r][n].name : n \in 1..Len(frame[r])}
                   /\ \A name \in DOMAIN artifact_dict[r] :
                         LET n == Last(Named(r, name)) IN
                         /\ artifact_dict[r][name].kind =
                               IF frame[r][n].loads THEN "value" ELSE "error"
                         /\ ~frame[r][n].loads => <<r, n>> \in warnings

\* C10: a call with a content type outside {np.csv, pd.csv, pickle} does no
\* I/O: no temporary file, nothing written, nothing attached; once the call
\* has acted it has failed on the assertion.
C10_UnsupportedTypeFailsBeforeIO ==
    saveCall.content_type \notin {"np.csv", "pd.csv", "pickle"} /\ savePc # "idle"
    => /\ tmpFiles = {}
       /\ ioLog = <<>>
       /\ runArtifacts = <<>>
       /\ savePc \in {"call", "raised"}
       /\ savePc = "raised" => saveErr = "AssertionError"

\* C10 witness: a call with the content type "json" has failed.
C10_Witness ==
    /\ savePc = "raised"
    /\ saveCall.content_type = "json"
    /\ saveErr = "AssertionError"
    /\ tmpFiles = {}

\* The configuration of a row besides the seed, and the rows that have it.
AssignmentOf(r) == [c \in {x \in DOMAIN r : Head(x) = "config" /\ x # seedCol} |-> r[c]]

RowsWith(fr, asg) == {i \in DOMAIN fr : AssignmentOf(fr[i]) = asg}

IdsOf(s) == {s[j] : j \in DOMAIN s}

\* The row of an assignment is as C11 says: the ids of exactly the input rows with
\* the assignment, once each, and for the metric the mean over those rows.
RowIsOfAssignment(fr, r) ==
    LET S == RowsWith(fr, r.index) IN
    /\ IdsOf(r.run_ids) = {fr[i][idCol] : i \in S}
    /\ Len(r.run_ids) = Cardinality(S)
    /\ r.mean[mCol].num * Cardinality(S)
           = SumOf([i \in S |-> fr[i][mCol]], S) * r.mean[mCol].den

\* C11 (as claimed): average_metrics_over_seed returns one row for each distinct
\* assignment of the configuration fields other than the seed found in the input
\* rows, with the ids of exactly the rows of that assignment (the run_ids lists
\* partition the input ids) and the mean of the metric over exactly those rows.
C11_OneRowPerAssignment ==
    avgResult.called =>
        /\ avgResult.err = "none"
        /\ {r.index : r \in avgResult.rows} = {AssignmentOf(avgFrame[i]) : i \in DOMAIN avgFrame}
        /\ \A r1, r2 \in avgResult.rows : r1.index = r2.index => r1 = r2
        /\ \A r \in avgResult.rows : RowIsOfAssignment(avgFrame, r)
        /\ UNION {IdsOf(r.run_ids) : r \in avgResult.rows}
               = {avgFrame[i][idCol] : i \in DOMAIN avgFrame}

\* What holds of C11: the same, for a frame that has a configuration column
\* besides the seed and no missing value in such a column.
NoMissingKey(fr) ==
    /\ \E c \in DOMAIN fr[1] : Head(c) = "config" /\ c # seedCol
    /\ \A i \in DOMAIN fr : \A c \in DOMAIN AssignmentOf(fr[i]) : fr[i][c] # NaN

AverageOfFrameWithoutMissingKeys ==
    (avgResult.called /\ NoMissingKey(avgFrame)) =>
        /\ avgResult.err = "none"
        /\ {r.index : r \in avgResult.rows} = {AssignmentOf(avgFrame[i]) : i \in DOMAIN avgFrame}
        /\ \A r \in avgResult.rows : RowIsOfAssignment(avgFrame, r)

\* The frame of the example: three rows that differ in the seed only, with metric
\* values 10, 20 and 30, give one row with mean 20 and the three ids.
SeedExampleAveraged ==
    /\ avgResult.called
    /\ Len(avgFrame) = 3
    /\ \A i \in 1..3 : avgFrame[i][mCol] = 10 * i /\ AssignmentOf(avgFrame[i]) = (bCol :> "1")
    /\ \E r \in avgResult.rows :
          /\ avgResult.rows = {r}
          /\ r.mean[mCol].num = 20 * r.mean[mCol].den
          /\ r.run_ids = <<1, 2, 3>>

\* The rows get_dataframe normalizes, and a mapping that is not a single-key
\* tuple-substitute mapping.
Loaded(records, completed_only) ==
    IF completed_only THEN SelectSeq(records, LAMBDA r : r[statusCol] = COMPLETED)
    ELSE records

Unsupported(x) ==
    /\ x.kind = "dict"
    /\ ~(DOMAIN x.items = {pyTuple} /\ x.items[pyTuple].kind = "list")

\* C12 (as claimed): the normalization of get_dataframe never fails, and when a
\* row holds an unsupported mapping in the configuration column the value is
\* left as it is and a warning is emitted, in whichever row it is and whatever
\* the first row holds.
C12_UnsupportedMappingWarnsNeverFails ==
    dfResult.called =>
        LET fr == Loaded(dfRecords, dfArgs.completed_only) IN
        /\ dfResult.err = "none"
        /\ \A i \in DOMAIN fr :
              Unsupported(fr[i][tCol]) =>
                  /\ dfResult.warned
                  /\ dfResult.frame[i][tCol] = fr[i][tCol]

\* What holds of C12: when the first row holds an unsupported mapping, nothing
\* fails, the column is left as it is and a warning is emitted.
UnsupportedInFirstRowWarns ==
    LET fr == Loaded(dfRecords, dfArgs.completed_only) IN
    (dfResult.called /\ fr # <<>> /\ Unsupported(fr[1][tCol])) =>
        /\ dfResult.err = "none"
        /\ dfResult.warned
        /\ \A i \in DOMAIN fr : dfResult.frame[i][tCol] = fr[i][tCol]

\* A tuple-substitute mapping in the first row and an unsupported mapping in the
\* second: the conversion of the column raises KeyError.
UnsupportedInLaterRowRaises ==
    /\ dfResult.called
    /\ Len(dfRecords) = 2
    /\ ~dfArgs.completed_only
    /\ dfRecords[1][tCol] = DictV(pyTuple :> ListCell(<<"1", "2">>))
    /\ dfRecords[2][tCol] = DictV("k" :> IntCell)
    /\ dfResult.err = "KeyError"

\* A configuration as JSON gives it back: a tuple comes back as a list, every
\* other value as it was.
ReadBack(config) ==
    [k \in DOMAIN config |->
        IF config[k].kind = "tuple" THEN ListCell(config[k].items) ELSE config[k]]

\* One iterator, at every moment: what it has returned are configurations of the
\* list, each file once and already deleted when returned; the folder is there
\* until the iteration ends, and the iteration ends by StopIteration of __next__,
\* after as many configurations as the list has, with the folder removed.
IterateSafe ==
    LET y == yielded[1] IN
    /\ Len(y) <= Len(config_list)
    /\ \A j, k \in DOMAIN y : y[j].file = y[k].file => j = k
    /\ \A k \in DOMAIN y :
          /\ y[k].file.index \in 0..(Len(config_list) - 1)
          /\ y[k].config = ReadBack(config_list[y[k].file.index + 1])
          /\ y[k].deleted
    /\ (dumped /\ wpc[1] # "ended") => folderExists
    /\ wpc[1] = "ended" =>
          /\ wend[1] = [exc |-> "StopIteration", at |-> "__next__"]
          /\ Len(y) = Len(config_list)
          /\ ~folderExists

\* C13: a single JsonFolderIterator over a folder written from n configurations
\* yields each of them exactly once (as JSON reads it back), its file deleted
\* before it is returned; the step after the n-th removes the empty folder and
\* ends the iteration, which terminates after exactly n yields.
C13_EachConfigurationOnceThenStop == []IterateSafe /\ <>(wpc[1] = "ended")

\* C13 witness: the iteration has ended after two configurations, one of them
\* with a tuple.
C13_Witness ==
    /\ workers = {1}
    /\ wpc[1] = "ended"
    /\ Len(config_list) = 2
    /\ config_list[2] = ("a" :> TupleCell(<<"1", "2">>))
    /\ Len(yielded[1]) = 2
    /\ ~folderExists

\* C14 (as claimed): a worker's iteration ends only by StopIteration, and only
\* when the shared folder is empty or removed.
C14_WorkersEndOnlyByExhaustion ==
    \A w \in workers :
        wpc[w] = "ended" =>
            /\ wend[w].exc = "StopIteration"
            /\ ~folderExists \/ DOMAIN folderFiles = {}

\* What holds of C14: a worker that ends by StopIteration ends when the folder is
\* empty or removed.
StopOnlyWhenFolderEmptyOrRemoved ==
    \A w \in workers :
        (wpc[w] = "ended" /\ wend[w].exc = "StopIteration") =>
            ~folderExists \/ DOMAIN folderFiles = {}

\* Two workers picked the same file; the os.remove of the second raises
\* FileNotFoundError while another configuration file is still in the folder.
WorkerFailsWhileFilesRemain ==
    \E w \in workers :
        /\ wpc[w] = "ended"
        /\ wend[w] = [exc |-> "FileNotFoundError", at |-> "os.remove"]
        /\ folderExists
        /\ DOMAIN folderFiles # {}

\* What every worker was given, as a set of [worker, n, file].
Dispatched ==
    UNION {{[worker |-> w, n |-> k, file |-> yielded[w][k].file] : k \in DOMAIN yielded[w]}
           : w \in Workers}

AttachedAsGiven ==
    runArtifacts = <<[name |-> saveCall.name, content_type |-> saveCall.content_type,
                      file_existed |-> TRUE]>>

\* C17 (as claimed): after a call of save_artifact, returned or raised, the
\* temporary file it created does not exist; after a normal return the artifact
\* was attached under the given name and content type while the file existed.
C17_TempFileGoneAfterCall ==
    /\ savePc \in {"returned", "raised"} => tmpFiles = {}
    /\ savePc = "returned" => AttachedAsGiven

\* What holds of C17: after a normal return the temporary file does not exist and
\* the artifact was attached while it existed.
SaveReturnedAttachedAndRemoved ==
    savePc = "returned" => (tmpFiles = {} /\ AttachedAsGiven)

\* pickle of an item that cannot be pickled: the call has raised and the
\* temporary file is still there.
SaveRaisedLeavesTempFile ==
    /\ savePc = "raised"
    /\ saveCall.content_type = "pickle"
    /\ saveErr = "PicklingError"
    /\ tmpFiles = {TmpFile}

\* C15: the guard does not exclude duplicate execution under concurrent launch.
\* A call whose guard found no matching record invokes the runner whatever the
\* other process has written to the store since, and no other call does: nothing
\* is asked of the store between the guard and the run.  So there are runs in
\* which both guards find no match and both processes run the configuration
\* (C15_Witness).
C15_GuardPassedMeansInvoked ==
    \A p \in Procs : \A k \in DOMAIN callLog[p] :
        callLog[p][k].invoked = callLog[p][k].passed

\* C15 witness: the two processes have both passed the guard on the same
\* configuration and both invoked the runner for it, one of them when the store
\* already held the other's record; the store holds two records of it.
C15_Witness ==
    /\ \E k1 \in DOMAIN callLog[1], k2 \in DOMAIN callLog[2] :
          /\ callLog[1][k1].config = callLog[2][k2].config
          /\ callLog[1][k1].passed /\ callLog[2][k2].passed
          /\ callLog[1][k1].invoked /\ callLog[2][k2].invoked
          /\ callLog[1][k1].duplicate \/ callLog[2][k2].duplicate
    /\ \E r1, r2 \in runs : r1._id # r2._id /\ r1.config = r2.config

\* C18 (as claimed): a call of run_configuration that does not run its
\* configuration (skipped as a duplicate, or failed on a nested key that names no
\* ingredient) leaves the parameters of every ingredient as they were.
C18_OnlyRunConfigsChangeIngredients ==
    \A p \in Procs : \A k \in DOMAIN callLog[p] :
        ~callLog[p][k].invoked => callLog[p][k].after = callLog[p][k].before

\* A call skipped as a duplicate has changed the ingredient, and a later run of a
\* configuration without nested values is recorded with the skipped values.
SkippedValuesReachLaterRun ==
    \E p \in Procs : \E k, j \in DOMAIN callLog[p] :
        /\ k < j
        /\ callLog[p][k].config = cIng2
        /\ ~callLog[p][k].invoked /\ ~callLog[p][k].raised
        /\ callLog[p][k].before = (kIng :> EmptyDict)
        /\ callLog[p][k].after = (kIng :> (kB :> Scalar("2")))
        /\ callLog[p][j].config = cA2
        /\ callLog[p][j].invoked
        /\ \E r \in runs : r.config = cA2 @@ (kIng :> DictV(kB :> Scalar("2")))

\* A call that failed on the key "x" after the ingredient "i" was given its
\* values.
RejectedCallChangedIngredient ==
    \E p \in Procs : \E k \in DOMAIN callLog[p] :
        /\ callLog[p][k].config = cOther
        /\ callLog[p][k].raised /\ ~callLog[p][k].invoked
        /\ callLog[p][k].after # callLog[p][k].before

====
